---- MODULE Spec2Model ----
(***************************************************************************)
(* distro-seed: the statistics ledger (seed_stats.txt) and the job         *)
(* orchestration of main.go.                                               *)
(*                                                                         *)
(* src/main.go holds two revisions of the ledger and of processTorrents:   *)
(*   RevDelta   main.go:204-481  per-torrent baselines (previousUploads),  *)
(*              the total is read once at startup, magnets are awaited in  *)
(*              their own goroutine;                                       *)
(*   RevReread  main.go:507-759  every tick re-reads the file and adds the *)
(*              raw session counters, magnets are awaited inside the loop  *)
(*              of processTorrents.                                        *)
(* The revision is fixed when the model starts (variable rev).             *)
(*                                                                         *)
(* The specifications share the variables:                                 *)
(*   Spec        the ledger: process start, stats ticks, the two system    *)
(*               calls of a flush, cancellation, stop and restart;         *)
(*   SpecJobs    processTorrents / addTorrent / seedTorrent over a list of *)
(*               sources, with the metadata cache and the engine;          *)
(*   SpecRun     one process lifetime: the jobs, both periodic loops, the  *)
(*               cancellation and the return of main, with the fairness    *)
(*               of the Go scheduler;                                      *)
(*   SpecHealth  periodicAnnounce over the torrents of the client, and the *)
(*               signal channel of setupSignalHandling;                    *)
(*   SpecSeed    the jobs together with the engine's download of the       *)
(*               content;                                                  *)
(*   SpecConfig  the head of main over the texts of TORRENT_URLS;          *)
(*   SpecDir     one lifetime on a download directory that holds the       *)
(*               record and the .torrent files side by side;               *)
(*   SpecFlush   the stats loop with its ticker channel.                   *)
(***************************************************************************)
EXTENDS Integers, Sequences, FiniteSets, TLC

(* ------------------------------ bounds --------------------------------- *)
NumTorrents == 2
MaxBytes == 1
MaxTicks == 2
NumSources == 2
MaxSignals == 2
MaxInput == 4

(* ---------------------------- revisions -------------------------------- *)
RevDelta == "main.go:204-481"
RevReread == "main.go:507-759"
Revisions == {RevDelta, RevReread}

VARIABLES
  rev,              \* which revision of main.go runs
  cancelled,        \* ctx.Done() is closed
  mainPc,           \* main(): "down", "process" (in processTorrents), "blocked", "wait"
  (* ledger *)
  file,             \* seed_stats.txt: [exists, data]
  statsPc,          \* logPeriodicTorrentStatus: "off", "select", "create", "write", "returned"
  totalUploaded,    \* *totalUploaded (RevDelta) / the local totalUploaded of a flush (RevReread)
  previousUploads,  \* the map of logPeriodicTorrentStatus (RevDelta)
  uploaded,         \* the engine's session counter BytesWrittenData of each torrent
  inClient,         \* client.Torrents()
  (* ledger: history, read by the properties only *)
  ticks,            \* stats ticks serviced in this process lifetime
  allTicks,         \* stats ticks serviced in all lifetimes
  fileAtStart,      \* the record as it was when the process started
  fileBefore,       \* the record as it was when the current / last flush began
  sumRead,          \* sum of the session counters as read by the last tick
  lastFlush,        \* "none", "running", "ok", "createFail", "writeFail"
  failedEarlier,    \* a flush of this lifetime failed to write
  persistedMax,     \* largest total a flush has persisted successfully, ever
  readLog,          \* last (at most two) readTotalUploaded calls with no write in between
  (* jobs *)
  sources,          \* torrentList
  fault,            \* what goes wrong for the source at each position, if anything
  resolves,         \* whether the magnet's swarm ever delivers its metadata
  idx,              \* position of processTorrents in torrentList
  jobPc,            \* per position: "pending", "failed", "waitMeta", "seedWait", "seeding"
  cache,            \* the .torrent files in the download directory, by file name
  cacheAtStart,     \* the download directory as the process found it
  engine,           \* info-hashes of the torrents the client holds
  gotInfo,          \* torrents whose GotInfo() is closed
  downloadAll,      \* torrents that received DownloadAll()
  handle,           \* per position: the torrent returned by the engine, or NoTorrent
  acq,              \* per position: "none", "cached", "fetched", "noFile"
  fetchCount,       \* http.Get calls per source
  body,             \* per position: the body the fetch returned (<<>> if none)
  addedBy,          \* per position: the engine operation called, "none" if none
  complete,         \* torrents whose content the engine holds completely
  (* signals *)
  sigPc,            \* the goroutine of setupSignalHandling: "off", "receive", "done"
  signals,          \* number of signals in the channel (capacity 1)
  delivered,        \* signals the operating system has delivered to the process
  cancelCalls,      \* calls of cancelFunc made by that goroutine
  (* health monitor *)
  announcePc,       \* periodicAnnounce: "off", "select", "returned"
  healthTicks,      \* health ticks serviced
  totalPeers,       \* t.Stats().TotalPeers of each torrent
  sampled,          \* the peer counts read by the last health tick
  announced,        \* the announce requests issued by the last health tick
  (* configuration *)
  torrentURLs,      \* the text of -url / TORRENT_URLS
  torrentList,      \* what parseTorrentURLs returned
  attempted,        \* entries of torrentList handed to addTorrent / AddMagnet
  engineAsked,      \* entries for which the engine was asked to add a torrent
  (* ticker of the stats loop *)
  tickC,            \* ticks waiting in ticker.C (capacity 1)
  flushes           \* calls of logCurrentTorrentStatus that have not returned

ledgerVars == <<file, statsPc, totalUploaded, previousUploads, uploaded, inClient,
                ticks, allTicks, fileAtStart, fileBefore, sumRead, lastFlush,
                failedEarlier, persistedMax, readLog>>
jobVars == <<sources, fault, resolves, idx, jobPc, cache, cacheAtStart, engine, gotInfo,
             downloadAll, handle, acq, fetchCount, body, addedBy, complete>>
signalVars == <<sigPc, signals, delivered, cancelCalls>>
healthVars == <<announcePc, healthTicks, totalPeers, sampled, announced>>
configVars == <<torrentURLs, torrentList, attempted, engineAsked>>
tickerVars == <<tickC, flushes>>
vars == <<rev, cancelled, mainPc, ledgerVars, jobVars, signalVars, healthVars, configVars,
         tickerVars>>

(* ------------------------- text of the record -------------------------- *)
DigitChars == <<"0", "1", "2", "3", "4", "5", "6", "7", "8", "9">>
IsDigit(c) == \E d \in 1..10 : DigitChars[d] = c
DigitVal(c) == (CHOOSE d \in 1..10 : DigitChars[d] = c) - 1

RECURSIVE Digits(_)
Digits(n) == IF n < 10 THEN <<DigitChars[n + 1]>>
             ELSE Digits(n \div 10) \o <<DigitChars[(n % 10) + 1]>>

\* fmt.Fprintf(file, "%d", n)
FormatInt(n) == IF n < 0 THEN <<"-">> \o Digits(0 - n) ELSE Digits(n)

RECURSIVE SkipSpace(_)
SkipSpace(s) == IF s # <<>> /\ Head(s) = " " THEN SkipSpace(Tail(s)) ELSE s

RECURSIVE DigitRun(_)
DigitRun(s) == IF s # <<>> /\ IsDigit(Head(s)) THEN <<Head(s)>> \o DigitRun(Tail(s)) ELSE <<>>

RECURSIVE DigitsValue(_, _)
DigitsValue(s, acc) == IF s = <<>> THEN acc
                       ELSE DigitsValue(Tail(s), 10 * acc + DigitVal(Head(s)))

\* fmt.Fscanf(file, "%d", &n): leading spaces are skipped, a sign is accepted,
\* at least one digit is required, the run of digits is the number; what
\* follows the number is not looked at.
Fscanf(data) ==
  LET s == SkipSpace(data)
      neg == s # <<>> /\ Head(s) = "-"
      t == IF s # <<>> /\ Head(s) \in {"+", "-"} THEN Tail(s) ELSE s
      run == DigitRun(t)
  IN IF run = <<>> THEN [err |-> TRUE, val |-> 0]
     ELSE [err |-> FALSE,
           val |-> IF neg THEN 0 - DigitsValue(run, 0) ELSE DigitsValue(run, 0)]

Missing == [exists |-> FALSE, data |-> <<>>]
Present(d) == [exists |-> TRUE, data |-> d]

\* os.Open(seedStatsFile) leaves the file as it is
OpenTruncating(f) == IF f.exists THEN Present(<<>>) ELSE f
OpenForRead(f) == f

ReadAlwaysZero(f) == 0
readTotalUploaded(f) ==
  IF ~f.exists THEN 0
  ELSE LET r == Fscanf(f.data) IN IF r.err THEN 0 ELSE r.val


(* ------------------------------ ledger --------------------------------- *)
Torrents == 1..NumTorrents
NoBytes == [t \in Torrents |-> 0]

RECURSIVE SumOver(_, _)
SumOver(f, S) == IF S = {} THEN 0
                 ELSE LET t == CHOOSE x \in S : TRUE IN f[t] + SumOver(f, S \ {t})

Max(a, b) == IF a >= b THEN a ELSE b

\* records a seed_stats.txt may hold when the process starts
InitialFiles == {Missing, Present(<<>>), Present(<<"x">>), Present(<<"9">>),
                 Present(<<" ", "3">>), Present(<<"4", "x">>)}

\* a readTotalUploaded call: the file it saw, the file it left, what it returned
Logged(log, f) ==
  (IF Len(log) >= 2 THEN Tail(log) ELSE log)
    \o <<[in |-> f, after |-> OpenForRead(f), out |-> readTotalUploaded(f)]>>

\* RevDelta, main.go:397-421: add each torrent's increment since the last tick
sessionUpload(up, prev, S) == SumOver([t \in Torrents |-> up[t] - prev[t]], S)

\* RevReread, main.go:689-698: the file's value plus the raw session counters
rereadTotal(f, up, S) == readTotalUploaded(f) + SumOver(up, S)

JobsIdle ==
  /\ sources = <<>> /\ fault = <<>> /\ resolves = FALSE /\ idx = 1
  /\ jobPc = <<>> /\ cache = <<>> /\ cacheAtStart = <<>> /\ engine = {} /\ gotInfo = {}
  /\ downloadAll = {} /\ handle = <<>> /\ acq = <<>> /\ fetchCount = <<>>
  /\ body = <<>> /\ addedBy = <<>> /\ complete = {}

\* the goroutine of setupSignalHandling does not exist (yet, or any more)
SignalsIdle == sigPc = "off" /\ signals = 0 /\ delivered = 0 /\ cancelCalls = 0

\* no health tick has been serviced
HealthIdle ==
  /\ healthTicks = 0 /\ totalPeers = <<>> /\ sampled = <<>>
  /\ announced = {}

\* the configuration is some text that passes the check of main; what the
\* list holds is in sources
ConfigPassed ==
  torrentURLs = <<"u">> /\ torrentList = <<>> /\ attempted = 0 /\ engineAsked = 0

\* the ticker of the stats loop has sent nothing and no flush is running
TickerIdle == tickC = 0 /\ flushes = 0

\* where a periodic loop is while processTorrents runs: RevDelta starts the
\* loops before the call, RevReread after it
LoopsAtProcess(r) == IF r = RevDelta THEN "select" ELSE "off"

Init ==
  /\ rev \in Revisions
  /\ cancelled = FALSE
  /\ mainPc = "down"
  /\ file \in InitialFiles
  /\ statsPc = "off"
  /\ totalUploaded = 0
  /\ previousUploads = NoBytes
  /\ uploaded = NoBytes
  /\ inClient = {}
  /\ allTicks = 0
  /\ ticks = 0
  /\ fileAtStart = file
  /\ fileBefore = file
  /\ sumRead = 0
  /\ lastFlush = "none"
  /\ failedEarlier = FALSE
  /\ persistedMax = 0
  /\ readLog = <<>>
  /\ JobsIdle
  /\ SignalsIdle
  /\ announcePc = "off" /\ HealthIdle
  /\ ConfigPassed
  /\ TickerIdle

\* main() on a configuration that passes its checks, up to the call of
\* processTorrents: the signal goroutine is started; RevDelta reads the record
\* and starts both loops first; RevReread starts the loops after processTorrents.
main ==
  /\ mainPc = "down"
  /\ mainPc' = "process"
  /\ cancelled' = FALSE
  /\ uploaded' = NoBytes
  /\ inClient' = {}
  /\ previousUploads' = NoBytes
  /\ ticks' = 0
  /\ sumRead' = 0
  /\ lastFlush' = "none"
  /\ failedEarlier' = FALSE
  /\ fileAtStart' = file
  /\ IF rev = RevDelta
       THEN /\ totalUploaded' = readTotalUploaded(file)
            /\ file' = OpenForRead(file)
            /\ readLog' = Logged(readLog, file)
            /\ statsPc' = "select"
       ELSE /\ totalUploaded' = 0
            /\ statsPc' = "off"
            /\ UNCHANGED <<file, readLog>>
  /\ sigPc' = "receive" /\ signals' = 0 /\ delivered' = 0 /\ cancelCalls' = 0
  /\ announcePc' = LoopsAtProcess(rev)
  /\ UNCHANGED <<rev, allTicks, fileBefore, persistedMax, jobVars, healthTicks, totalPeers,
                 sampled, announced, configVars, tickerVars>>

\* processTorrents hands the next torrent of its list to the client
\* (client.AddTorrent / client.AddMagnet)
clientAdd(t) ==
  /\ mainPc = "process"
  /\ statsPc \in {"off", "select"}
  /\ t = Cardinality(inClient) + 1
  /\ inClient' = inClient \cup {t}
  /\ UNCHANGED <<rev, cancelled, mainPc, file, statsPc, totalUploaded, previousUploads,
                 uploaded, ticks, allTicks, fileAtStart, fileBefore, sumRead, lastFlush,
                 failedEarlier, persistedMax, readLog, jobVars, signalVars, healthVars, configVars, tickerVars>>

\* processTorrents returns; main goes on to <-ctx.Done() (RevReread starts the loops here)
processTorrentsReturns ==
  /\ mainPc = "process"
  /\ mainPc' = "wait"
  /\ statsPc' = IF rev = RevReread THEN "select" ELSE statsPc
  /\ announcePc' = IF rev = RevReread THEN "select" ELSE announcePc
  /\ UNCHANGED <<rev, cancelled, file, totalUploaded, previousUploads, uploaded, inClient,
                 ticks, allTicks, fileAtStart, fileBefore, sumRead, lastFlush,
                 failedEarlier, persistedMax, readLog, jobVars, signalVars, healthTicks,
                 totalPeers, sampled, announced, configVars, tickerVars>>

\* the engine uploads: a torrent's session counter grows. The counters are read
\* only at a tick, so an upload during the system calls of a flush is taken
\* right after them.
engineUploads(t) ==
  /\ mainPc # "down"
  /\ statsPc \in {"off", "select"}
  /\ t \in inClient
  /\ uploaded[t] < MaxBytes
  /\ uploaded' = [uploaded EXCEPT ![t] = @ + 1]
  /\ UNCHANGED <<rev, cancelled, mainPc, file, statsPc, totalUploaded, previousUploads,
                 inClient, ticks, allTicks, fileAtStart, fileBefore, sumRead, lastFlush,
                 failedEarlier, persistedMax, readLog, jobVars, signalVars, healthVars, configVars, tickerVars>>

\* where the loop is once the tick case has called logCurrentTorrentStatus:
\* inside the call, the loop goes back to its select when the call returns
CallWithGo == "select"
CallInline == "create"

\* case <-ticker.C: takes the tick out of the channel, if one is there;
\* logCurrentTorrentStatus up to the os.Create call
logCurrentTorrentStatus ==
  /\ statsPc = "select"
  /\ allTicks + healthTicks < MaxTicks
  /\ allTicks' = allTicks + 1
  /\ ticks' = ticks + 1
  /\ statsPc' = CallInline
  /\ tickC' = 0
  /\ flushes' = flushes + 1
  /\ fileBefore' = file
  /\ sumRead' = SumOver(uploaded, inClient)
  /\ lastFlush' = "running"
  /\ IF rev = RevDelta
       THEN /\ totalUploaded' = totalUploaded + sessionUpload(uploaded, previousUploads, inClient)
            /\ previousUploads' = [t \in Torrents |->
                                     IF t \in inClient THEN uploaded[t] ELSE previousUploads[t]]
            /\ UNCHANGED <<file, readLog>>
       ELSE /\ totalUploaded' = rereadTotal(file, uploaded, inClient)
            /\ file' = OpenForRead(file)
            /\ readLog' = Logged(readLog, file)
            /\ UNCHANGED previousUploads
  /\ UNCHANGED <<rev, cancelled, mainPc, uploaded, inClient, fileAtStart,
                 failedEarlier, persistedMax, jobVars, signalVars, healthVars, configVars>>

\* os.Create(seedStatsFile): fails and the flush returns, or truncates the file
osCreate ==
  /\ statsPc = "create"
  /\ \/ /\ statsPc' = "select"
        /\ lastFlush' = "createFail"
        /\ failedEarlier' = TRUE
        /\ flushes' = flushes - 1
        /\ UNCHANGED <<file, readLog>>
     \/ /\ statsPc' = "write"
        /\ file' = Present(<<>>)
        /\ readLog' = <<>>
        /\ UNCHANGED <<lastFlush, failedEarlier, flushes>>
  /\ UNCHANGED <<rev, cancelled, mainPc, totalUploaded, previousUploads, uploaded, inClient,
                 ticks, allTicks, fileAtStart, fileBefore, sumRead, persistedMax, jobVars, signalVars, healthVars, configVars, tickC>>

\* fmt.Fprintf(file, "%d", total): writes the number, or fails having written
\* only some first part of it
fmtFprintf ==
  /\ statsPc = "write"
  /\ statsPc' = "select"
  /\ readLog' = <<>>
  /\ flushes' = flushes - 1
  /\ \/ /\ file' = Present(FormatInt(totalUploaded))
        /\ lastFlush' = "ok"
        /\ persistedMax' = Max(persistedMax, totalUploaded)
        /\ UNCHANGED failedEarlier
     \/ /\ \E n \in 0..(Len(FormatInt(totalUploaded)) - 1) :
             file' = Present(SubSeq(FormatInt(totalUploaded), 1, n))
        /\ lastFlush' = "writeFail"
        /\ failedEarlier' = TRUE
        /\ UNCHANGED persistedMax
  /\ UNCHANGED <<rev, cancelled, mainPc, totalUploaded, previousUploads, uploaded, inClient,
                 ticks, allTicks, fileAtStart, fileBefore, sumRead, jobVars, signalVars, healthVars, configVars, tickC>>

\* case <-ctx.Done(): return
logPeriodicTorrentStatusReturns ==
  /\ statsPc = "select"
  /\ cancelled
  /\ statsPc' = "returned"
  /\ UNCHANGED <<rev, cancelled, mainPc, file, totalUploaded, previousUploads, uploaded,
                 inClient, ticks, allTicks, fileAtStart, fileBefore, sumRead, lastFlush,
                 failedEarlier, persistedMax, readLog, jobVars, signalVars, healthVars, configVars, tickerVars>>

\* the first SIGINT / SIGTERM, delivered and handled in one step: the goroutine
\* of setupSignalHandling receives it, calls cancelFunc and ends
setupSignalHandling ==
  /\ mainPc # "down"
  /\ ~cancelled
  /\ cancelled' = TRUE
  /\ sigPc' = "done"
  /\ delivered' = delivered + 1
  /\ cancelCalls' = cancelCalls + 1
  /\ UNCHANGED <<rev, mainPc, ledgerVars, jobVars, signals, healthVars, configVars, tickerVars>>

\* the process is gone: memory is lost, the file stays as it is
ProcessGone ==
  /\ mainPc' = "down"
  /\ statsPc' = "off"
  /\ totalUploaded' = 0
  /\ previousUploads' = NoBytes
  /\ uploaded' = NoBytes
  /\ inClient' = {}
  /\ ticks' = 0
  /\ sumRead' = 0
  /\ lastFlush' = "none"
  /\ failedEarlier' = FALSE
  /\ fileAtStart' = file
  /\ fileBefore' = file
  /\ sigPc' = "off" /\ signals' = 0 /\ delivered' = 0 /\ cancelCalls' = 0
  /\ announcePc' = "off"
  /\ tickC' = 0 /\ flushes' = 0
  /\ UNCHANGED <<rev, cancelled, file, allTicks, persistedMax, readLog, jobVars, healthTicks,
                 totalPeers, sampled, announced, configVars>>

\* <-ctx.Done() in main: main returns and the process exits, wherever the loops are
mainReturns ==
  /\ mainPc = "wait"
  /\ cancelled
  /\ ProcessGone

\* the process is stopped from outside at any point (kill, crash, power loss);
\* the service unit starts it again
processStops ==
  /\ mainPc # "down"
  /\ ~cancelled
  /\ ProcessGone

Next ==
  \/ main
  \/ \E t \in Torrents : clientAdd(t)
  \/ processTorrentsReturns
  \/ \E t \in Torrents : engineUploads(t)
  \/ logCurrentTorrentStatus
  \/ osCreate
  \/ fmtFprintf
  \/ logPeriodicTorrentStatusReturns
  \/ setupSignalHandling
  \/ mainReturns
  \/ processStops

Spec == Init /\ [][Next]_vars


(* ------------------------ properties of the ledger --------------------- *)
\* the record holds the total T: it is the decimal text of T, or it does not
\* exist and T = 0
RecordHolds(f, T) == IF f.exists THEN f.data = FormatInt(T) ELSE T = 0
Totals == 0..(10 + 2 * (MaxTicks + 1) * NumTorrents * MaxBytes)

\* the text has an integer at its front: spaces, at most one sign, a digit
HasLeadingInteger(d) ==
  \E i \in 1..Len(d) :
    /\ IsDigit(d[i])
    /\ \A j \in 1..(i - 1) : d[j] = " " \/ (j = i - 1 /\ d[j] \in {"+", "-"})
NoInteger(f) == ~f.exists \/ ~HasLeadingInteger(f.data)

\* C1: restart invariant. If the record holds T when the process starts and the
\* session counters of all torrents sum to U at the first stats tick, a first
\* tick whose flush succeeds leaves the record holding exactly T + U.
C1_RestartInvariant ==
  (mainPc # "down" /\ ticks = 1 /\ lastFlush = "ok")
    => \A T \in Totals :
         RecordHolds(fileAtStart, T) => file = Present(FormatInt(T + sumRead))

\* C1 witness: a restart onto a record written by an earlier lifetime, two
\* torrents with bytes uploaded, first tick flushed
C1_Witness ==
  /\ mainPc # "down" /\ ticks = 1 /\ allTicks = 2 /\ lastFlush = "ok"
  /\ Cardinality(inClient) = 2 /\ sumRead = 2
  /\ fileAtStart = Present(<<"1", "0">>)
  /\ file = Present(<<"1", "2">>)

\* C2: no inflation across ticks. In a lifetime started on a record holding T
\* whose flushes all succeeded, after every tick the record holds T plus the
\* sum of the session counters as read at that tick.
C2_NoInflation ==
  (mainPc # "down" /\ lastFlush = "ok" /\ ~failedEarlier)
    => \A T \in Totals :
         RecordHolds(fileAtStart, T) => file = Present(FormatInt(T + sumRead))

\* C3: the total never goes back across restarts. What readTotalUploaded loads
\* when the process starts is at least every total an earlier flush persisted.
C3_MonotoneAcrossRestarts ==
  [][(mainPc = "down" /\ mainPc' # "down") => readTotalUploaded(file) >= persistedMax]_vars

\* C4: atomic replace. While a flush is between its system calls the record is
\* the complete previous record or the complete new one.
C4_AtomicReplace ==
  statsPc \in {"create", "write"}
    => (file = fileBefore \/ file = Present(FormatInt(totalUploaded)))

\* C5: a failed write does not damage the record. After a flush that failed in
\* os.Create or in Fprintf the record holds the value it held when the flush
\* began.
C5_FailedWriteKeepsRecord ==
  lastFlush \in {"createFail", "writeFail"}
    => readTotalUploaded(file) = readTotalUploaded(fileBefore)

\* C6: a write failure is non-fatal and recoverable. After a failed flush the
\* loop is back at its select, and the next successful flush of the lifetime
\* persists the start total plus the session counters, each byte once.
C6_WriteFailureRecoverable ==
  /\ lastFlush \in {"createFail", "writeFail"} => statsPc \in {"select", "returned"}
  /\ (mainPc # "down" /\ lastFlush = "ok" /\ failedEarlier)
       => \A T \in Totals :
            RecordHolds(fileAtStart, T) => file = Present(FormatInt(T + sumRead))

MagnetM == <<"magnet:?", "xt", "m">>
UrlAX == <<"http:", "a", "x.torrent">>
UrlBX == <<"http:", "b", "x.torrent">>
UrlAY == <<"http:", "a", "y.torrent">>
\* a URL whose final segment is the name of the stats record
UrlStats == <<"http:", "a", "seed_stats.txt">>
Catalogue == {MagnetM, UrlAX, UrlBX, UrlAY}
Positions == 1..NumSources
NoTorrent == "none"

\* strings.HasPrefix(url, "magnet:?")
AlwaysMagnet(url) == TRUE
HasMagnetPrefix(url) == url[1] = "magnet:?"
\* filepath.Base(url)
BaseWithHost(url) == IF url[2] = "b" THEN "y.torrent" ELSE url[Len(url)]
Base(url) == url[Len(url)]
FileNames == {Base(u) : u \in {v \in Catalogue : ~HasMagnetPrefix(v)}}

\* what the servers and the swarm hold: the descriptor behind each URL (its
\* second byte stands for the content the info-hash is derived from), the page
\* sent with a non-2xx status, a 200 body that is no descriptor
InfoHashOf(url) ==
  CASE url = MagnetM -> "m"
    [] url = UrlAX -> "ax"
    [] url = UrlBX -> "bx"
    [] url = UrlAY -> "ay"
    [] url = UrlStats -> "st"
DescriptorAt(url) == <<"d", InfoHashOf(url), "e">>
ErrorPage == <<"<", "404", ">">>
BadBody == <<"?", "?", "?">>

\* what can go wrong for one source
UrlFaults == {"none", "netError", "non2xx", "badBody", "createFail", "copyFail", "reject"}
MagnetFaults == {"none", "reject"}
FaultsOf(url) == IF HasMagnetPrefix(url) THEN MagnetFaults ELSE UrlFaults

\* the body of the response http.Get returns (the status is never looked at)
ResponseBody(url, flt) ==
  CASE flt = "non2xx" -> ErrorPage
    [] flt = "badBody" -> BadBody
    [] OTHER -> DescriptorAt(url)

\* metainfo.LoadFromFile: the file must decode as a descriptor
IsDescriptor(d) == Len(d) = 3 /\ d[1] = "d" /\ d[3] = "e"
LoadFromFile(f) ==
  IF f.exists /\ IsDescriptor(f.data)
    THEN [err |-> FALSE, hash |-> f.data[2]]
    ELSE [err |-> TRUE, hash |-> NoTorrent]

\* log.Printf of an error: the caller goes on; log.Fatalf: the process exits
logFatalf(pc) == "fatal"
logPrintfExits(pc) == logFatalf(pc)
logPrintf(pc) == pc

\* the process exists: its goroutines and the engine inside it can take steps
Running == mainPc \notin {"down", "fatal"}

\* <-t.GotInfo() can return: the channel is closed
GotInfoNotAwaited(h) == TRUE
GotInfoClosed(h) == h \in gotInfo

\* filepath.Join(*downloadDir, "seed_stats.txt"): the record lives in the
\* download directory, next to the .torrent files
seedStatsFile == "seed_stats.txt"

\* the download directory: the .torrent files and the record, by file name
downloadDir(c, f) ==
  [name \in FileNames \cup {seedStatsFile} |-> IF name = seedStatsFile THEN f ELSE c[name]]

\* os.Stat(torrentPath) finds the file
StatAlwaysNotExist(c, name) == FALSE
StatExists(c, name) == c[name].exists

\* addTorrent(client, url, downloadDir) for a source with fault flt; n is the
\* number of bytes ReadFrom has written when it fails. The result: the cache
\* directory afterwards, how the descriptor was obtained ("cached": file found,
\* no fetch; "fetched": fetched and file created; "noFile": fetch attempted, no
\* file created), the number of http.Get calls, the body received, whether
\* client.AddTorrent was called, and the torrent handed back by the engine
\* (NoTorrent when an error is returned).
addTorrent(c, url, flt, n) ==
  LET name == Base(url)
      found == StatExists(c, name)
      resp == ResponseBody(url, flt)
      stored == IF found THEN c
                ELSE IF flt \in {"netError", "createFail"} THEN c
                ELSE IF flt = "copyFail" THEN [c EXCEPT ![name] = Present(SubSeq(resp, 1, n))]
                ELSE [c EXCEPT ![name] = Present(resp)]
      early == ~found /\ flt \in {"netError", "createFail", "copyFail"}
      meta == LoadFromFile(stored[name])
  IN [cache |-> stored,
      acq |-> IF found THEN "cached"
              ELSE IF flt \in {"netError", "createFail"} THEN "noFile" ELSE "fetched",
      gets |-> IF found THEN 0 ELSE 1,
      body |-> IF found \/ flt = "netError" THEN <<>> ELSE resp,
      added |-> ~early /\ ~meta.err,
      torrent |-> IF early \/ meta.err \/ flt = "reject" THEN NoTorrent ELSE meta.hash]

JobsInit ==
  /\ rev \in Revisions
  /\ cancelled = FALSE
  /\ mainPc = "process"
  /\ file = Missing /\ statsPc = LoopsAtProcess(rev) /\ totalUploaded = 0
  /\ previousUploads = NoBytes /\ uploaded = NoBytes /\ inClient = {}
  /\ ticks = 0 /\ allTicks = 0 /\ fileAtStart = Missing /\ fileBefore = Missing
  /\ sumRead = 0 /\ lastFlush = "none" /\ failedEarlier = FALSE
  /\ persistedMax = 0 /\ readLog = <<>>
  /\ sources \in [Positions -> Catalogue]
  /\ fault \in [Positions -> UrlFaults]
  /\ \A i \in Positions : fault[i] \in FaultsOf(sources[i])
  /\ resolves \in BOOLEAN
  /\ idx = 1
  /\ jobPc = [i \in Positions |-> "pending"]
  /\ cache \in {[name \in FileNames |-> IF name = "x.torrent" THEN f ELSE Missing] :
                  f \in {Missing, Present(DescriptorAt(UrlAX)), Present(ErrorPage)}}
  /\ cacheAtStart = cache
  /\ engine = {}
  /\ gotInfo = {}
  /\ downloadAll = {}
  /\ handle = [i \in Positions |-> NoTorrent]
  /\ acq = [i \in Positions |-> "none"]
  /\ fetchCount = [u \in Catalogue |-> 0]
  /\ body = [i \in Positions |-> <<>>]
  /\ addedBy = [i \in Positions |-> "none"]
  /\ complete = {}
  /\ sigPc = "receive" /\ signals = 0 /\ delivered = 0 /\ cancelCalls = 0
  /\ announcePc = LoopsAtProcess(rev) /\ HealthIdle
  /\ ConfigPassed
  /\ TickerIdle

\* processTorrents, one turn of its loop, magnet branch: client.AddMagnet, then
\* RevDelta starts waitForMagnetMetadata and goes on; RevReread waits for
\* t.GotInfo() right here
processTorrentsMagnet ==
  /\ mainPc = "process"
  /\ idx <= Len(sources)
  /\ HasMagnetPrefix(sources[idx])
  /\ addedBy' = [addedBy EXCEPT ![idx] = "AddMagnet"]
  /\ IF fault[idx] = "reject"
       THEN /\ jobPc' = [jobPc EXCEPT ![idx] = "failed"]
            /\ idx' = idx + 1
            /\ mainPc' = logPrintf(mainPc)
            /\ UNCHANGED <<engine, handle>>
       ELSE /\ engine' = engine \cup {InfoHashOf(sources[idx])}
            /\ handle' = [handle EXCEPT ![idx] = InfoHashOf(sources[idx])]
            /\ jobPc' = [jobPc EXCEPT ![idx] = "waitMeta"]
            /\ IF rev = RevDelta
                 THEN idx' = idx + 1 /\ UNCHANGED mainPc
                 ELSE mainPc' = "blocked" /\ UNCHANGED idx
  /\ UNCHANGED <<rev, cancelled, ledgerVars, sources, fault, resolves, cache, cacheAtStart,
                 gotInfo, downloadAll, acq, fetchCount, body, complete, signalVars,
                 healthVars, configVars, tickerVars>>

\* processTorrents, one turn of its loop, URL branch: addTorrent on the
\* download directory, then go seedTorrent or the error is logged
processTorrentsUrl ==
  /\ mainPc = "process"
  /\ idx <= Len(sources)
  /\ ~HasMagnetPrefix(sources[idx])
  /\ \E n \in 0..2 :
       LET r == addTorrent(downloadDir(cache, file), sources[idx], fault[idx], n) IN
         /\ fault[idx] # "copyFail" => n = 0
         /\ cache' = [name \in FileNames |-> r.cache[name]]
         /\ file' = r.cache[seedStatsFile]
         /\ readLog' = IF r.cache[seedStatsFile] = file THEN readLog ELSE <<>>
         /\ acq' = [acq EXCEPT ![idx] = r.acq]
         /\ body' = [body EXCEPT ![idx] = r.body]
         /\ fetchCount' = [fetchCount EXCEPT ![sources[idx]] = @ + r.gets]
         /\ handle' = [handle EXCEPT ![idx] = r.torrent]
         /\ addedBy' = [addedBy EXCEPT ![idx] = IF r.added THEN "AddTorrent" ELSE "none"]
         /\ IF r.torrent = NoTorrent
              THEN /\ jobPc' = [jobPc EXCEPT ![idx] = "failed"]
                   /\ mainPc' = logPrintf(mainPc)
                   /\ UNCHANGED <<engine, gotInfo>>
              ELSE /\ jobPc' = [jobPc EXCEPT ![idx] = "seedWait"]
                   /\ engine' = engine \cup {r.torrent}
                   /\ gotInfo' = gotInfo \cup {r.torrent}
                   /\ UNCHANGED mainPc
  /\ idx' = idx + 1
  /\ UNCHANGED <<rev, cancelled, statsPc, totalUploaded, previousUploads, uploaded, inClient,
                 ticks, allTicks, fileAtStart, fileBefore, sumRead, lastFlush,
                 failedEarlier, persistedMax, sources, fault, resolves, cacheAtStart,
                 downloadAll, complete, signalVars, healthVars, configVars, tickerVars>>

\* the loop of processTorrents is over: main goes on to <-ctx.Done()
\* (RevReread starts the two loops on the way)
processTorrentsDone ==
  /\ mainPc = "process"
  /\ idx > Len(sources)
  /\ mainPc' = "wait"
  /\ statsPc' = IF rev = RevReread THEN "select" ELSE statsPc
  /\ announcePc' = IF rev = RevReread THEN "select" ELSE announcePc
  /\ UNCHANGED <<rev, cancelled, file, totalUploaded, previousUploads, uploaded, inClient,
                 ticks, allTicks, fileAtStart, fileBefore, sumRead, lastFlush,
                 failedEarlier, persistedMax, readLog, jobVars, signalVars, healthTicks,
                 totalPeers, sampled, announced, configVars, tickerVars>>

\* the swarm delivers the metadata of the magnet's torrent
engineGotInfo ==
  /\ Running
  /\ resolves
  /\ InfoHashOf(MagnetM) \in engine
  /\ InfoHashOf(MagnetM) \notin gotInfo
  /\ gotInfo' = gotInfo \cup {InfoHashOf(MagnetM)}
  /\ UNCHANGED <<rev, cancelled, mainPc, ledgerVars, sources, fault, resolves, idx, jobPc,
                 cache, cacheAtStart, engine, downloadAll, handle, acq, fetchCount, body,
                 addedBy, complete, signalVars, healthVars, configVars, tickerVars>>

\* RevReread: <-t.GotInfo() inside processTorrents returns; go seedTorrent
processTorrentsGotInfo ==
  /\ mainPc = "blocked"
  /\ GotInfoClosed(handle[idx])
  /\ mainPc' = "process"
  /\ jobPc' = [jobPc EXCEPT ![idx] = "seedWait"]
  /\ idx' = idx + 1
  /\ UNCHANGED <<rev, cancelled, ledgerVars, sources, fault, resolves, cache, cacheAtStart,
                 engine, gotInfo, downloadAll, handle, acq, fetchCount, body, addedBy,
                 complete, signalVars, healthVars, configVars, tickerVars>>

\* RevDelta: waitForMagnetMetadata: <-t.GotInfo() returns; go seedTorrent
waitForMagnetMetadata(i) ==
  /\ Running
  /\ rev = RevDelta
  /\ jobPc[i] = "waitMeta"
  /\ GotInfoClosed(handle[i])
  /\ jobPc' = [jobPc EXCEPT ![i] = "seedWait"]
  /\ UNCHANGED <<rev, cancelled, mainPc, ledgerVars, sources, fault, resolves, idx, cache,
                 cacheAtStart, engine, gotInfo, downloadAll, handle, acq, fetchCount, body,
                 addedBy, complete, signalVars, healthVars, configVars, tickerVars>>

\* seedTorrent: <-t.GotInfo() returns, t.DownloadAll(), "Seeding" is logged
seedTorrent(i) ==
  /\ Running
  /\ jobPc[i] = "seedWait"
  /\ GotInfoClosed(handle[i])
  /\ downloadAll' = downloadAll \cup {handle[i]}
  /\ jobPc' = [jobPc EXCEPT ![i] = "seeding"]
  /\ UNCHANGED <<rev, cancelled, mainPc, ledgerVars, sources, fault, resolves, idx, cache,
                 cacheAtStart, engine, gotInfo, handle, acq, fetchCount, body, addedBy,
                 complete, signalVars, healthVars, configVars, tickerVars>>

JobsNext ==
  \/ processTorrentsMagnet
  \/ processTorrentsUrl
  \/ processTorrentsDone
  \/ engineGotInfo
  \/ processTorrentsGotInfo
  \/ \E i \in Positions : waitForMagnetMetadata(i)
  \/ \E i \in Positions : seedTorrent(i)

SpecJobs == JobsInit /\ [][JobsNext]_vars


(* ------------------------- properties of the jobs ---------------------- *)
\* nothing stands in the way of the job at position i itself: its fetch, its
\* cached file, the engine and the swarm all do their part
OwnOK(i) ==
  /\ fault[i] = "none"
  /\ IF HasMagnetPrefix(sources[i]) THEN resolves
     ELSE LET f == cacheAtStart[Base(sources[i])]
          IN ~f.exists \/ IsDescriptor(f.data)

\* a wait on GotInfo() of torrent h that will never end
WaitsForever(h) == h \notin gotInfo /\ ~resolves

\* no job and no loop turn can take a further step
Quiescent ==
  /\ mainPc = "wait" \/ (mainPc = "blocked" /\ WaitsForever(handle[idx]))
  /\ \A i \in Positions : jobPc[i] \in {"waitMeta", "seedWait"} => WaitsForever(handle[i])

\* C8: job isolation. Once nothing can move any more, every job whose own
\* acquisition and metadata resolution succeed is Seeding, whatever happened to
\* the other sources of the list.
C8_JobIsolation ==
  Quiescent => \A i \in Positions : OwnOK(i) => jobPc[i] = "seeding"

\* the GET for the source at position i was answered with a non-2xx status
GotNon2xx(i) == acq[i] = "fetched" /\ fault[i] = "non2xx"

\* C9: a non-2xx answer to the GET of a .torrent URL fails that job only: the
\* job is Failed with no torrent handed to the engine, the process is running,
\* and every job of another source that is fine by itself is Seeding once
\* nothing moves.
C9_Non2xxFailsOnlyThatJob ==
  \A i \in Positions :
    GotNon2xx(i) =>
      /\ jobPc[i] = "failed"
      /\ handle[i] = NoTorrent
      /\ mainPc # "down"
      /\ Quiescent => \A j \in Positions :
                        (sources[j] # sources[i] /\ OwnOK(j)) => jobPc[j] = "seeding"

\* positions i < j that hold the same URL source, both done by processTorrents
SameUrlTwice(i, j) ==
  /\ i < j /\ j < idx
  /\ sources[i] = sources[j]
  /\ ~HasMagnetPrefix(sources[i])

IsPrefix(p, q) == Len(p) <= Len(q) /\ p = SubSeq(q, 1, Len(p))

LifecycleSteps ==
  {<<"pending", "failed">>, <<"pending", "waitMeta">>, <<"pending", "seedWait">>,
   <<"waitMeta", "seedWait">>, <<"seedWait", "seeding">>, <<"seeding", "returned">>}

\* C19: lifecycle ordering per job. DownloadAll is issued for a torrent only
\* once its GotInfo channel is closed, a job is Seeding only once DownloadAll
\* has been issued for its torrent, a job moves one step at a time and never
\* backwards, and a job whose acquisition failed holds no torrent a directive
\* could be sent to and stays Failed.
C19_LifecycleOrdering ==
  /\ [](/\ \A h \in downloadAll : h \in gotInfo
        /\ \A i \in DOMAIN jobPc :
             /\ jobPc[i] = "seeding" => handle[i] \in downloadAll
             /\ jobPc[i] = "failed" => handle[i] = NoTorrent)
  /\ [][/\ \A h \in downloadAll' \ downloadAll : h \in gotInfo
        /\ \A i \in DOMAIN jobPc :
             jobPc'[i] # jobPc[i] => <<jobPc[i], jobPc'[i]>> \in LifecycleSteps]_vars

\* C19 witness: a magnet job went through the metadata wait and DownloadAll
\* and is seeding, next to a job whose acquisition failed
C19_Witness ==
  /\ sources[1] = MagnetM /\ jobPc[1] = "seeding"
  /\ handle[1] \in gotInfo /\ handle[1] \in downloadAll
  /\ jobPc[2] = "failed" /\ fault[2] = "netError"

\* the sources of the catalogue that are magnet identifiers
MagnetIdentifiers == {MagnetM}

\* processTorrents has dealt with the source at position i
Dispatched(i) == jobPc[i] # "pending"

Hashes == {InfoHashOf(u) : u \in Catalogue}

\* t.Metainfo().AnnounceList: the tracker tiers of the torrent (a magnet link
\* of the catalogue names no tracker)
AnnounceListOf(h) ==
  CASE h = "ax" -> <<<<"t1">>, <<"t2", "t3">>>>
    [] h = "bx" -> <<<<"t1">>>>
    [] OTHER -> <<>>

\* client.DhtServers(), client.LocalPort()
DhtServers == {"dht0"}
LocalPort == "localPort"

\* the peer floor of periodicAnnounce and the counts the engine may report
PeerFloor == 10
PeerCounts == {PeerFloor - 1, PeerFloor, PeerFloor + 1}

\* t.Stats().TotalPeers < 10
AtOrBelowFloor(n) == n <= PeerFloor
BelowFloor(n) == n < PeerFloor

\* the requests of one re-announce of torrent h: t.ModifyTrackers for every
\* tier of its announce list, dhtServer.Announce(infoHash, LocalPort) on every
\* DHT server
TrackerRequests(h) ==
  {[to |-> "tracker", torrent |-> h, tier |-> AnnounceListOf(h)[k], port |-> ""] :
     k \in DOMAIN AnnounceListOf(h)}
DhtRequests(h) ==
  {[to |-> d, torrent |-> h, tier |-> <<>>, port |-> LocalPort] : d \in DhtServers}
Requests(h) == TrackerRequests(h) \cup DhtRequests(h)

\* case <-ticker.C of periodicAnnounce: every torrent of the client is sampled
\* and re-announced when it has few peers. ModifyTrackers returns nothing and
\* what Announce returns is dropped, so a request that fails leaves the same
\* state as one that succeeds.
periodicAnnounce ==
  /\ announcePc = "select"
  /\ allTicks + healthTicks < MaxTicks
  /\ healthTicks' = healthTicks + 1
  /\ sampled' = [h \in engine |-> totalPeers[h]]
  /\ announced' = UNION {Requests(h) : h \in {g \in engine : BelowFloor(totalPeers[g])}}
  /\ UNCHANGED <<rev, cancelled, mainPc, ledgerVars, jobVars, signalVars, announcePc,
                 totalPeers, configVars, tickerVars>>

\* case <-ctx.Done() of periodicAnnounce: return
periodicAnnounceReturns ==
  /\ announcePc = "select"
  /\ cancelled
  /\ announcePc' = "returned"
  /\ UNCHANGED <<rev, cancelled, mainPc, ledgerVars, jobVars, signalVars, healthTicks,
                 totalPeers, sampled, announced, configVars, tickerVars>>

\* the operating system delivers SIGINT or SIGTERM: signal.Notify sends it to
\* the channel without blocking, so it is dropped when the channel is full
signalNotify ==
  /\ mainPc \notin {"down", "fatal"}
  /\ sigPc # "off"
  /\ delivered < MaxSignals
  /\ delivered' = delivered + 1
  /\ signals' = IF signals < 1 THEN signals + 1 ELSE signals
  /\ UNCHANGED <<rev, cancelled, mainPc, ledgerVars, jobVars, sigPc, cancelCalls,
                 healthVars, configVars, tickerVars>>

\* where the goroutine of setupSignalHandling is after cancelFunc()
GoroutineLoops == "receive"
GoroutineEnds == "done"

\* the goroutine of setupSignalHandling: <-signals, cancelFunc()
signalGoroutine ==
  /\ sigPc = "receive"
  /\ signals > 0
  /\ signals' = signals - 1
  /\ cancelled' = TRUE
  /\ cancelCalls' = cancelCalls + 1
  /\ sigPc' = GoroutineEnds
  /\ UNCHANGED <<rev, mainPc, ledgerVars, jobVars, delivered, healthVars, configVars, tickerVars>>

\* every position holds a source of its own cache file and every job is seeding
AllSeeding(srcs) ==
  /\ sources = srcs
  /\ fault = [i \in Positions |-> "none"]
  /\ resolves = TRUE
  /\ idx = NumSources + 1
  /\ jobPc = [i \in Positions |-> "seeding"]
  /\ cacheAtStart = [name \in FileNames |-> Missing]
  /\ cache = [name \in FileNames |->
                IF \E i \in Positions : Base(srcs[i]) = name
                  THEN Present(DescriptorAt(CHOOSE u \in Catalogue :
                                              \E i \in Positions : srcs[i] = u /\ Base(u) = name))
                  ELSE Missing]
  /\ engine = {InfoHashOf(srcs[i]) : i \in Positions}
  /\ gotInfo = engine
  /\ downloadAll = engine
  /\ complete = {}
  /\ handle = [i \in Positions |-> InfoHashOf(srcs[i])]
  /\ acq = [i \in Positions |-> IF HasMagnetPrefix(srcs[i]) THEN "none" ELSE "fetched"]
  /\ fetchCount = [u \in Catalogue |->
                     IF \E i \in Positions : srcs[i] = u /\ ~HasMagnetPrefix(u) THEN 1 ELSE 0]
  /\ body = [i \in Positions |->
               IF HasMagnetPrefix(srcs[i]) THEN <<>> ELSE DescriptorAt(srcs[i])]
  /\ addedBy = [i \in Positions |->
                  IF HasMagnetPrefix(srcs[i]) THEN "AddMagnet" ELSE "AddTorrent"]

\* the process after processTorrents, main at <-ctx.Done(), both loops at
\* their select, every configured source seeding
HealthInit ==
  /\ rev \in Revisions
  /\ cancelled = FALSE
  /\ mainPc = "wait"
  /\ file = Missing /\ statsPc = "select" /\ totalUploaded = 0
  /\ previousUploads = NoBytes /\ uploaded = NoBytes /\ inClient = {}
  /\ ticks = 0 /\ allTicks = 0 /\ fileAtStart = Missing /\ fileBefore = Missing
  /\ sumRead = 0 /\ lastFlush = "none" /\ failedEarlier = FALSE
  /\ persistedMax = 0 /\ readLog = <<>>
  /\ \E srcs \in [Positions -> Catalogue] :
       /\ \A i, j \in Positions : i # j => Base(srcs[i]) # Base(srcs[j])
       /\ AllSeeding(srcs)
  /\ sigPc = "receive" /\ signals = 0 /\ delivered = 0 /\ cancelCalls = 0
  /\ announcePc = "select"
  /\ healthTicks = 0 /\ sampled = <<>> /\ announced = {}
  /\ totalPeers \in [Hashes -> PeerCounts \cup {0}]
  /\ \A h \in Hashes : h \in engine <=> totalPeers[h] \in PeerCounts
  /\ ConfigPassed
  /\ TickerIdle

HealthNext ==
  \/ periodicAnnounce
  \/ periodicAnnounceReturns
  \/ signalNotify
  \/ signalGoroutine
  \/ mainReturns

SpecHealth == HealthInit /\ [][HealthNext]_vars

\* C13: for any sequence of SIGINT / SIGTERM, the goroutine calls cancelFunc
\* for the first signal and never again: the first signal is never dropped,
\* the context is cancelled exactly when that one call was made, and the
\* delivery of a later signal changes nothing but the channel and leaves the
\* process running.
C13_SignalsCancelOnce ==
  /\ [](mainPc # "down" =>
          /\ cancelCalls <= 1
          /\ cancelled <=> cancelCalls = 1
          /\ cancelCalls = 1 => delivered >= 1
          /\ (delivered >= 1 /\ cancelCalls = 0) => (sigPc = "receive" /\ signals = 1))
  /\ [][(delivered' > delivered /\ delivered >= 1)
          => UNCHANGED <<rev, cancelled, mainPc, ledgerVars, jobVars, sigPc, cancelCalls,
                         healthVars, configVars, tickerVars>>]_vars

\* C13 witness: two signals were delivered, the first one cancelled the
\* context, the second one lies in the channel and the process is still up
C13_Witness ==
  /\ delivered = 2 /\ cancelCalls = 1 /\ cancelled
  /\ sigPc = "done" /\ signals = 1
  /\ mainPc = "wait"

\* the requests of the last health tick that concern torrent h
AnnouncedFor(h) == {q \in announced : q.torrent = h}

\* C14: at every health tick every torrent of the client is sampled, and the
\* re-announce of a torrent (ModifyTrackers for each tier of its announce
\* list, Announce with its info-hash and the listening port on the DHT) is
\* issued if and only if its sampled peer count is below 10.
C14_HealthThreshold ==
  healthTicks > 0 =>
    /\ DOMAIN sampled = engine
    /\ \A h \in engine :
         /\ sampled[h] < 10 =>
              /\ AnnouncedFor(h) = Requests(h)
              /\ \E q \in AnnouncedFor(h) : q.to \in DhtServers /\ q.port = LocalPort
              /\ \A k \in DOMAIN AnnounceListOf(h) :
                   \E q \in AnnouncedFor(h) : q.to = "tracker" /\ q.tier = AnnounceListOf(h)[k]
         /\ sampled[h] >= 10 => AnnouncedFor(h) = {}

\* C14 witness: one torrent sampled at 9 was re-announced to its two tiers and
\* to the DHT, another one sampled at exactly 10 was not
C14_Witness ==
  /\ healthTicks > 0
  /\ "ax" \in engine /\ sampled["ax"] = 9 /\ Cardinality(AnnouncedFor("ax")) = 3
  /\ "m" \in engine /\ sampled["m"] = 10 /\ AnnouncedFor("m") = {}

(* --------------------------- one process lifetime ---------------------- *)
\* seedTorrent: <-ctx.Done() returns and the goroutine ends
seedTorrentReturns(i) ==
  /\ Running
  /\ jobPc[i] = "seeding"
  /\ cancelled
  /\ jobPc' = [jobPc EXCEPT ![i] = "returned"]
  /\ UNCHANGED <<rev, cancelled, mainPc, ledgerVars, sources, fault, resolves, idx, cache,
                 cacheAtStart, engine, gotInfo, downloadAll, handle, acq, fetchCount, body,
                 addedBy, complete, signalVars, healthVars, configVars, tickerVars>>

\* the engine has downloaded and verified all pieces of a torrent it was told
\* to download
engineCompletes(h) ==
  /\ Running
  /\ h \in downloadAll \ complete
  /\ complete' = complete \cup {h}
  /\ UNCHANGED <<rev, cancelled, mainPc, ledgerVars, sources, fault, resolves, idx, jobPc,
                 cache, cacheAtStart, engine, gotInfo, downloadAll, handle, acq, fetchCount,
                 body, addedBy, signalVars, healthVars, configVars, tickerVars>>

\* the sources and faults of a lifetime: a magnet link and a .torrent URL, an
\* acquisition error and a rejection by the engine
RunCatalogue == {MagnetM, UrlAX}
RunFaults(url) == IF HasMagnetPrefix(url) THEN {"none", "reject"} ELSE {"none", "netError"}

\* main has passed its checks and calls processTorrents; the download
\* directory holds no file yet; every torrent will have few peers
RunInit ==
  /\ rev \in Revisions
  /\ cancelled = FALSE
  /\ mainPc = "process"
  /\ file = Missing /\ statsPc = LoopsAtProcess(rev) /\ totalUploaded = 0
  /\ previousUploads = NoBytes /\ uploaded = NoBytes /\ inClient = {}
  /\ ticks = 0 /\ allTicks = 0 /\ fileAtStart = Missing /\ fileBefore = Missing
  /\ sumRead = 0 /\ lastFlush = "none" /\ failedEarlier = FALSE
  /\ persistedMax = 0 /\ readLog = <<>>
  /\ sources \in [Positions -> RunCatalogue]
  /\ fault \in [Positions -> UrlFaults]
  /\ \A i \in Positions : fault[i] \in RunFaults(sources[i])
  /\ resolves \in BOOLEAN
  /\ idx = 1
  /\ jobPc = [i \in Positions |-> "pending"]
  /\ cache = [name \in FileNames |-> Missing]
  /\ cacheAtStart = cache
  /\ engine = {}
  /\ gotInfo = {}
  /\ downloadAll = {}
  /\ handle = [i \in Positions |-> NoTorrent]
  /\ acq = [i \in Positions |-> "none"]
  /\ fetchCount = [u \in Catalogue |-> 0]
  /\ body = [i \in Positions |-> <<>>]
  /\ addedBy = [i \in Positions |-> "none"]
  /\ complete = {}
  /\ sigPc = "receive" /\ signals = 0 /\ delivered = 0 /\ cancelCalls = 0
  /\ announcePc = LoopsAtProcess(rev)
  /\ healthTicks = 0 /\ sampled = <<>> /\ announced = {}
  /\ totalPeers = [h \in Hashes |-> PeerFloor - 1]
  /\ ConfigPassed
  /\ TickerIdle

RunNext ==
  \/ processTorrentsMagnet
  \/ processTorrentsUrl
  \/ processTorrentsDone
  \/ engineGotInfo
  \/ processTorrentsGotInfo
  \/ \E i \in Positions : waitForMagnetMetadata(i)
  \/ \E i \in Positions : seedTorrent(i)
  \/ \E i \in Positions : seedTorrentReturns(i)
  \/ logCurrentTorrentStatus
  \/ osCreate
  \/ fmtFprintf
  \/ logPeriodicTorrentStatusReturns
  \/ periodicAnnounce
  \/ periodicAnnounceReturns
  \/ setupSignalHandling
  \/ mainReturns

\* the Go scheduler runs every goroutine that can take a step, and a swarm that
\* has the metadata delivers it; signals and ticks come when they come
RunFairness ==
  /\ WF_vars(processTorrentsMagnet)
  /\ WF_vars(processTorrentsUrl)
  /\ WF_vars(processTorrentsDone)
  /\ WF_vars(engineGotInfo)
  /\ WF_vars(processTorrentsGotInfo)
  /\ WF_vars(\E i \in Positions : waitForMagnetMetadata(i))
  /\ WF_vars(\E i \in Positions : seedTorrent(i))
  /\ WF_vars(\E i \in Positions : seedTorrentReturns(i))
  /\ WF_vars(osCreate)
  /\ WF_vars(fmtFprintf)
  /\ WF_vars(logPeriodicTorrentStatusReturns)
  /\ WF_vars(periodicAnnounceReturns)
  /\ WF_vars(mainReturns)

SpecRun == RunInit /\ [][RunNext]_vars /\ RunFairness

(* ---------------------- properties of one lifetime --------------------- *)
\* every task of the process has come to its end: the process has exited, or
\* every job goroutine and both loops have returned
AllTasksEnded ==
  \/ mainPc = "down"
  \/ /\ \A i \in Positions : jobPc[i] \in {"failed", "returned"}
     /\ statsPc = "returned"
     /\ announcePc = "returned"

\* C11: shutdown. Once the context is cancelled, every job task, the stats
\* loop and the health loop come to their end.
C11_ShutdownCompletes == cancelled ~> AllTasksEnded

\* C12: cancellation wins ties. Once the context is cancelled, neither loop
\* services another tick: no stats flush and no health check begins.
C12_CancellationWinsTies ==
  [][cancelled => /\ ~(statsPc = "select" /\ statsPc' = "create")
                  /\ healthTicks' = healthTicks]_vars

\* C17: only cancellation ends a process that has passed its startup checks:
\* main has not returned and the process has not exited as long as the context
\* is not cancelled, whatever failed.
C17_OnlyCancellationEnds == mainPc \in {"down", "fatal"} => cancelled

\* C17 witness: one source failed in its download and the other was rejected by
\* the engine, the stats write failed, a health tick passed, and main is
\* waiting at <-ctx.Done() with the context not cancelled
C17_Witness ==
  /\ mainPc = "wait" /\ ~cancelled
  /\ \A i \in Positions : jobPc[i] = "failed"
  /\ \E i, j \in Positions : fault[i] = "netError" /\ fault[j] = "reject"
  /\ lastFlush = "writeFail"
  /\ healthTicks = 1

\* C18: bounded metadata wait. A job that waits for its metadata leaves that
\* wait (for Failed when the metadata does not come), unless the process is
\* cancelled first.
C18_MetadataWaitBounded ==
  \A i \in Positions : (jobPc[i] = "waitMeta") ~> (jobPc[i] # "waitMeta" \/ cancelled)

\* C23: the periodic loops are independent of job progress. Whatever the jobs
\* do, a job whose metadata never arrives included, a running process gets
\* both the stats loop and the health loop started, unless it is cancelled or
\* has ended first.
C23_LoopsIndependentOfJobs ==
  Running ~> (cancelled \/ ~Running \/ (statsPc # "off" /\ announcePc # "off"))

(* ------------------------- content of a seeding job -------------------- *)
\* the jobs of one lifetime together with the engine's download of the content
SeedNext ==
  \/ JobsNext
  \/ \E h \in Hashes : engineCompletes(h)

SpecSeed == RunInit /\ [][SeedNext]_vars

\* C16: a job is Seeding (seedTorrent has logged "Seeding") only when the
\* engine holds the complete content of its torrent.
C16_SeedingOnlyWhenComplete ==
  \A i \in Positions : jobPc[i] = "seeding" => handle[i] \in complete

(* ------------------------ the configuration of main -------------------- *)
\* the characters of a TORRENT_URLS text: the separator, a blank, and a
\* character of a source
ConfigChars == {",", " ", "u"}

RECURSIVE TextsOfLen(_)
TextsOfLen(n) ==
  IF n = 0 THEN {<<>>}
  ELSE {t \o <<c>> : t \in TextsOfLen(n - 1), c \in ConfigChars}
Texts == UNION {TextsOfLen(n) : n \in 0..MaxInput}

\* strings.Split(input, ","): the pieces between the commas, the empty ones too
RECURSIVE Split(_)
Split(t) ==
  IF \A k \in DOMAIN t : t[k] # "," THEN <<t>>
  ELSE LET k == CHOOSE j \in DOMAIN t : t[j] = "," /\ \A m \in 1..(j - 1) : t[m] # ","
       IN <<SubSeq(t, 1, k - 1)>> \o Split(SubSeq(t, k + 1, Len(t)))

\* strings.TrimSpace
RECURSIVE TrimLeft(_)
TrimLeft(t) == IF t # <<>> /\ Head(t) = " " THEN TrimLeft(Tail(t)) ELSE t
RECURSIVE TrimRight(_)
TrimRight(t) ==
  IF t # <<>> /\ t[Len(t)] = " " THEN TrimRight(SubSeq(t, 1, Len(t) - 1)) ELSE t
TrimSpace(t) == TrimRight(TrimLeft(t))

\* parseTorrentURLs of main.go:250-256 (also 57-62 and 547-553): every piece
\* is trimmed and kept, blank or not
parseTorrentURLs(input) == [k \in DOMAIN Split(input) |-> TrimSpace(Split(input)[k])]

\* the check a configuration has to pass: *torrentURLs == ""
FlagIsEmpty(input) == input = <<>>
NoEntryLeft(input) == \A k \in DOMAIN parseTorrentURLs(input) : parseTorrentURLs(input)[k] = <<>>

\* the process has not been started; the flag holds some short text
ConfigInit ==
  /\ rev \in Revisions
  /\ cancelled = FALSE
  /\ mainPc = "down"
  /\ file = Missing /\ statsPc = "off" /\ totalUploaded = 0
  /\ previousUploads = NoBytes /\ uploaded = NoBytes /\ inClient = {}
  /\ ticks = 0 /\ allTicks = 0 /\ fileAtStart = Missing /\ fileBefore = Missing
  /\ sumRead = 0 /\ lastFlush = "none" /\ failedEarlier = FALSE
  /\ persistedMax = 0 /\ readLog = <<>>
  /\ JobsIdle
  /\ SignalsIdle
  /\ announcePc = "off" /\ HealthIdle
  /\ torrentURLs \in Texts
  /\ torrentList = <<>>
  /\ attempted = 0
  /\ engineAsked = 0
  /\ TickerIdle

\* main, from setupSignalHandling to parseTorrentURLs: log.Fatal when the flag
\* is the empty text
mainParsesFlags ==
  /\ mainPc = "down"
  /\ IF FlagIsEmpty(torrentURLs)
       THEN /\ mainPc' = logFatalf(mainPc)
            /\ UNCHANGED <<torrentList, sigPc>>
       ELSE /\ mainPc' = "setup"
            /\ torrentList' = parseTorrentURLs(torrentURLs)
            /\ sigPc' = "receive"
  /\ UNCHANGED <<rev, cancelled, ledgerVars, jobVars, signals, delivered, cancelCalls,
                 healthVars, torrentURLs, attempted, engineAsked, tickerVars>>

\* main, from ensureDirectoryExists to the call of processTorrents: log.Fatalf
\* when the directory or the client cannot be created; RevDelta starts the
\* two loops here
mainSetsUp ==
  /\ mainPc = "setup"
  /\ \E ok \in BOOLEAN :
       IF ok
         THEN /\ mainPc' = "process"
              /\ statsPc' = LoopsAtProcess(rev)
              /\ announcePc' = LoopsAtProcess(rev)
         ELSE /\ mainPc' = logFatalf(mainPc)
              /\ UNCHANGED <<statsPc, announcePc>>
  /\ UNCHANGED <<rev, cancelled, file, totalUploaded, previousUploads, uploaded, inClient,
                 ticks, allTicks, fileAtStart, fileBefore, sumRead, lastFlush,
                 failedEarlier, persistedMax, readLog, jobVars, signalVars, healthTicks,
                 totalPeers, sampled, announced, configVars, tickerVars>>

\* processTorrents, one turn of its loop over torrentList. A blank entry has
\* no magnet prefix and goes to addTorrent, whose path filepath.Join(dir,
\* filepath.Base("")) is the download directory itself: os.Stat finds it,
\* metainfo.LoadFromFile fails on it and the engine is not asked. Any other
\* entry reaches the engine if its acquisition succeeds.
processTorrentsEntry ==
  /\ mainPc = "process"
  /\ attempted < Len(torrentList)
  /\ attempted' = attempted + 1
  /\ \E reached \in BOOLEAN :
       /\ torrentList[attempted + 1] = <<>> => ~reached
       /\ engineAsked' = IF reached THEN engineAsked + 1 ELSE engineAsked
  /\ UNCHANGED <<rev, cancelled, mainPc, ledgerVars, jobVars, signalVars, healthVars,
                 torrentURLs, torrentList, tickerVars>>

\* processTorrents returns; RevReread starts the two loops; main goes on to
\* <-ctx.Done()
processTorrentsEnds ==
  /\ mainPc = "process"
  /\ attempted = Len(torrentList)
  /\ mainPc' = "wait"
  /\ statsPc' = "select"
  /\ announcePc' = "select"
  /\ UNCHANGED <<rev, cancelled, file, totalUploaded, previousUploads, uploaded, inClient,
                 ticks, allTicks, fileAtStart, fileBefore, sumRead, lastFlush,
                 failedEarlier, persistedMax, readLog, jobVars, signalVars, healthTicks,
                 totalPeers, sampled, announced, configVars, tickerVars>>

ConfigNext ==
  \/ mainParsesFlags
  \/ mainSetsUp
  \/ processTorrentsEntry
  \/ processTorrentsEnds

SpecConfig == ConfigInit /\ [][ConfigNext]_vars

\* C15: a configuration with no source (every entry blank after splitting on
\* commas and trimming) is fatal at startup: the process never gets to start
\* a loop, to hand an entry to the acquisition or to ask the engine for
\* anything, and it does not reach processTorrents.
C15_NoSourceIsFatal ==
  NoEntryLeft(torrentURLs) =>
    /\ mainPc \in {"down", "setup", "fatal"}
    /\ statsPc = "off" /\ announcePc = "off"
    /\ attempted = 0 /\ engineAsked = 0


(* -------------------- properties of the descriptor cache --------------- *)
\* the acquisition of the URL source at position i went to the network and
\* did not end well: no answer, a non-2xx answer, no file created, or the copy
\* of the body into the file broke off
FetchFailed(i) ==
  /\ acq[i] \in {"fetched", "noFile"}
  /\ fault[i] \in {"netError", "non2xx", "createFail", "copyFail"}

\* C24: a cache entry exists only for a descriptor fetched completely and
\* successfully. Right after the acquisition of a URL source whose fetch failed
\* no file exists under the source's cache key.
C24_FailedFetchLeavesNoFile ==
  \A i \in Positions :
    (i = idx - 1 /\ FetchFailed(i)) => ~cache[Base(sources[i])].exists

\* two different URL sources with the same final segment, both done by
\* processTorrents, i first
SharedSegment(i, j) ==
  /\ i < j /\ j < idx
  /\ ~HasMagnetPrefix(sources[i]) /\ ~HasMagnetPrefix(sources[j])
  /\ sources[i] # sources[j]
  /\ sources[i][Len(sources[i])] = sources[j][Len(sources[j])]

\* an acquisition step fetches exactly when no file of the source's final
\* segment is in the directory as the step begins
FetchIffNoFile ==
  \A i \in Positions :
    (acq[i] = "none" /\ acq'[i] # "none") =>
      /\ acq'[i] = "cached" <=> cache[sources[i][Len(sources[i])]].exists
      /\ fetchCount'[sources[i]] =
           fetchCount[sources[i]] + (IF cache[sources[i][Len(sources[i])]].exists THEN 0 ELSE 1)

\* C25 as claimed: the cache is keyed by the final segment only. A fetch is
\* performed exactly when no file of that final segment exists at acquisition
\* time, and of two different locators with the same final segment only the
\* first is fetched and both resolve to the same descriptor.
C25_KeyedByFinalSegment ==
  /\ [][FetchIffNoFile]_vars
  /\ [](\A i, j \in Positions :
          SharedSegment(i, j) =>
            /\ acq[j] = "cached"
            /\ (handle[i] # NoTorrent /\ handle[j] # NoTorrent) => handle[i] = handle[j])

\* C25 as amended: a fetch is performed exactly when no file of that final
\* segment exists at acquisition time; of two different locators with the same
\* final segment the later one is not fetched and resolves to the same
\* descriptor whenever the earlier acquisition found or created the file, and
\* it is fetched when the acquisition right before it left no file.
C25_KeyedByFinalSegmentAmended ==
  /\ [][FetchIffNoFile]_vars
  /\ [](\A i, j \in Positions :
          SharedSegment(i, j) =>
            /\ acq[i] \in {"cached", "fetched"} =>
                 /\ acq[j] = "cached"
                 /\ (handle[i] # NoTorrent /\ handle[j] # NoTorrent) => handle[i] = handle[j]
            /\ (acq[i] = "noFile" /\ j = i + 1) => acq[j] # "cached")

\* C25 witness: two hosts serve x.torrent; the first locator was fetched, the
\* second was not, and both jobs seed the torrent of the first one's descriptor
C25_Witness ==
  /\ SharedSegment(1, 2)
  /\ acq[1] = "fetched" /\ acq[2] = "cached"
  /\ fetchCount[sources[1]] = 1 /\ fetchCount[sources[2]] = 0
  /\ handle[1] = InfoHashOf(sources[1]) /\ handle[2] = handle[1]
  /\ jobPc[1] = "seeding" /\ jobPc[2] = "seeding"


(* ----------------------- the ledger at shutdown ------------------------ *)
\* the record as the last successful flush left it: what the last flush of
\* this lifetime wrote if it succeeded, the record the lifetime started on if
\* no tick was serviced, else the record as it was when the flush that has
\* not succeeded began
LastGood ==
  CASE lastFlush = "ok" -> Present(FormatInt(totalUploaded))
    [] lastFlush = "none" -> fileAtStart
    [] OTHER -> fileBefore

\* C26: no flush on shutdown. The return of the stats loop on cancellation
\* writes nothing, and when main returns after cancellation the total in the
\* record the process leaves behind, which the next lifetime will read, is the
\* one the last successful tick wrote.
C26_NoFlushOnShutdown ==
  [][/\ (statsPc = "select" /\ statsPc' = "returned") => file' = file
     /\ (mainPc = "wait" /\ cancelled /\ mainPc' = "down") =>
          readTotalUploaded(file') = readTotalUploaded(LastGood)]_vars


(* --------------------- the record and its directory -------------------- *)
\* the sources of a lifetime whose download directory is looked at as a
\* whole: a magnet link, a .torrent URL, and a URL that ends in the name of
\* the record
DirCatalogue == {MagnetM, UrlAX, UrlStats}
DirFaults(url) == IF HasMagnetPrefix(url) THEN {"none"} ELSE {"none", "non2xx"}

\* the process has not been started; the directory holds no .torrent file and
\* perhaps a record
DirInit ==
  /\ rev \in Revisions
  /\ cancelled = FALSE
  /\ mainPc = "down"
  /\ file \in {Missing, Present(<<"9">>)}
  /\ statsPc = "off" /\ totalUploaded = 0
  /\ previousUploads = NoBytes /\ uploaded = NoBytes /\ inClient = {}
  /\ ticks = 0 /\ allTicks = 0 /\ fileAtStart = file /\ fileBefore = file
  /\ sumRead = 0 /\ lastFlush = "none" /\ failedEarlier = FALSE
  /\ persistedMax = 0 /\ readLog = <<>>
  /\ sources \in [Positions -> DirCatalogue]
  /\ fault \in [Positions -> UrlFaults]
  /\ \A i \in Positions : fault[i] \in DirFaults(sources[i])
  /\ resolves \in BOOLEAN
  /\ idx = 1
  /\ jobPc = [i \in Positions |-> "pending"]
  /\ cache = [name \in FileNames |-> Missing]
  /\ cacheAtStart = cache
  /\ engine = {}
  /\ gotInfo = {}
  /\ downloadAll = {}
  /\ handle = [i \in Positions |-> NoTorrent]
  /\ acq = [i \in Positions |-> "none"]
  /\ fetchCount = [u \in Catalogue \cup DirCatalogue |-> 0]
  /\ body = [i \in Positions |-> <<>>]
  /\ addedBy = [i \in Positions |-> "none"]
  /\ complete = {}
  /\ SignalsIdle
  /\ announcePc = "off"
  /\ healthTicks = 0 /\ sampled = <<>> /\ announced = {}
  /\ totalPeers = [h \in Hashes \cup {InfoHashOf(u) : u \in DirCatalogue} |-> PeerFloor - 1]
  /\ ConfigPassed
  /\ TickerIdle

\* the one start of the process in a lifetime
mainStarts == ~cancelled /\ main

DirNext ==
  \/ mainStarts
  \/ processTorrentsMagnet
  \/ processTorrentsUrl
  \/ processTorrentsDone
  \/ engineGotInfo
  \/ processTorrentsGotInfo
  \/ \E i \in Positions : waitForMagnetMetadata(i)
  \/ \E i \in Positions : seedTorrent(i)
  \/ \E i \in Positions : seedTorrentReturns(i)
  \/ logCurrentTorrentStatus
  \/ osCreate
  \/ fmtFprintf
  \/ logPeriodicTorrentStatusReturns
  \/ periodicAnnounce
  \/ periodicAnnounceReturns
  \/ setupSignalHandling
  \/ mainReturns

SpecDir == DirInit /\ [][DirNext]_vars

\* C22: single writer. The record is changed only by the two system calls of
\* a stats flush: every other step (the read at startup, the acquisition and
\* the supervision of a job, a health check, cancellation, shutdown) leaves
\* it as it is; and no step deletes it.
C22_SingleWriter ==
  [][/\ file' # file => statsPc \in {"create", "write"}
     /\ file.exists => file'.exists]_vars


(* ----------------------- the ticker of the stats loop ------------------ *)
\* the ticker's period has passed: a tick is put into ticker.C, or dropped
\* when the one before it has not been taken yet (time.Ticker sends without
\* blocking into a channel of capacity 1)
tickerFires ==
  /\ Running
  /\ statsPc \in {"select", "create", "write"}
  /\ tickC' = 1
  /\ UNCHANGED <<rev, cancelled, mainPc, ledgerVars, jobVars, signalVars, healthVars,
                 configVars, flushes>>

\* the loop takes the tick case: a tick is in the channel
tickCase == tickC > 0 /\ logCurrentTorrentStatus

\* the process has not been started; there is no record or one of an earlier
\* lifetime
FlushInit ==
  /\ rev \in Revisions
  /\ cancelled = FALSE
  /\ mainPc = "down"
  /\ file \in {Missing, Present(<<"9">>)}
  /\ statsPc = "off" /\ totalUploaded = 0
  /\ previousUploads = NoBytes /\ uploaded = NoBytes /\ inClient = {}
  /\ ticks = 0 /\ allTicks = 0 /\ fileAtStart = file /\ fileBefore = file
  /\ sumRead = 0 /\ lastFlush = "none" /\ failedEarlier = FALSE
  /\ persistedMax = 0 /\ readLog = <<>>
  /\ JobsIdle
  /\ SignalsIdle
  /\ announcePc = "off" /\ HealthIdle
  /\ ConfigPassed
  /\ TickerIdle

FlushNext ==
  \/ mainStarts
  \/ \E t \in Torrents : clientAdd(t)
  \/ processTorrentsReturns
  \/ \E t \in Torrents : engineUploads(t)
  \/ tickerFires
  \/ tickCase
  \/ osCreate
  \/ fmtFprintf
  \/ logPeriodicTorrentStatusReturns
  \/ setupSignalHandling
  \/ mainReturns

SpecFlush == FlushInit /\ [][FlushNext]_vars

\* C21: single-flight flush. At most one stats flush is in progress at any
\* time, and a tick that becomes due while a flush is running starts no
\* second one: it waits in the channel, or is dropped, until the flush has
\* returned.
C21_SingleFlightFlush ==
  /\ flushes <= 1
  /\ flushes = 1 => statsPc \in {"create", "write"}

\* C21 witness: a tick became due while the first flush of the lifetime was
\* between its two system calls
C21_Witness ==
  /\ statsPc = "write" /\ flushes = 1 /\ tickC = 1 /\ ticks = 1
  /\ file = Present(<<>>)

====
